---- MODULE Spec2Model ----
(***************************************************************************)
(* Time proportioning driver (xdrv_48_timeprop.ino, first translation unit *)
(* of the file, lines 1..488): one channel per relay, a one second tick,   *)
(* five console commands and the copy of the persisted settings into the   *)
(* runtime state.                                                          *)
(***************************************************************************)
EXTENDS Integers, Sequences, FiniteSets, TLC

(***************************************************************************)
(* Program constants.                                                      *)
(***************************************************************************)
\* "<x> can be 1 to 4", Timeprop1..4 -> Relay1..4.
MAX_TIMEPROPS == 4

POWER_OFF == "OFF"
POWER_ON == "ON"

Chan == 0 .. (MAX_TIMEPROPS - 1)
Device == 1 .. MAX_TIMEPROPS

(***************************************************************************)
(* Bounds of the model.                                                    *)
(***************************************************************************)
\* Spec: a Tick is delivered only while no driven channel has gone this many
\* seconds without an accepted TimepropSet (caps last_received).
MaxLast == 3

\* Spec: console commands the environment sends after boot.
MaxCmds == 2

\* SpecCycle: as MaxLast; above one full cycle of a one minute timebase.
CycleMaxLast == 62

\* SpecLong: as MaxLast; above one hour, the shortest fallback time.
LongMaxLast == 3601

\* SpecLong: TimepropSet arrives within this many seconds of a cycle start.
SetWindow == 3

(***************************************************************************)
(* The console: XdrvMailbox.data is << >> when data_len is 0, else <<n>>   *)
(* for the text of the number n.  The response of a command is << >> when  *)
(* ResponseCmndNumber was not called, else <<v>>.                          *)
(***************************************************************************)
NoData == << >>
NoResponse == << >>
Payloads(numbers) == {<<n>> : n \in numbers} \cup {NoData}

\* XdrvMailbox.index values the dispatcher can hand over.
IndexInputs == 0 .. (MAX_TIMEPROPS + 1)

\* Numbers sent with TimepropSet, TimepropTimeBase (minutes),
\* TimepropFallbackValue (percent), TimepropStartWithFallback and
\* TimepropFallbackAfter (hours).
PercentInputs == {-1, 0, 30, 100, 101}
MinuteInputs == {-1, 0, 1, 5, 31, 32, 256}
FallbackInputs == {0, 50, 100, 101}
FlagInputs == {0, 1, 2, 10}
HourInputs == {0, 1, 128, 256}

VARIABLES
  pc,                     \* "boot" before FUNC_INIT, "run" after
  Settings,               \* persisted configuration (Settings->timeprop, timeprop_cfg)
  Timepropsstate,         \* Timepropsstate[MAX_TIMEPROPS]
  fallback_after_seconds, \* global
  start_with_fallback,    \* global
  power,                  \* per relay: the ExecuteCommandPower calls of the last operation
  response,               \* ResponseCmndNumber of the last operation (NoResponse if none)
  op,                     \* the last operation and how it ended
  relay,                  \* history: per relay, the last power command sent ("NONE" if none)
  cycle,                  \* history: per channel, the incoming value and timebase at the
                          \* beginning of the cycle in progress
  ncmd                    \* history: commands dispatched so far

prog == <<Settings, Timepropsstate, fallback_after_seconds, start_with_fallback>>

vars == <<pc, Settings, Timepropsstate, fallback_after_seconds, start_with_fallback,
          power, response, op, relay, cycle, ncmd>>

(***************************************************************************)
(* Arithmetic helpers.                                                     *)
(***************************************************************************)
\* round() of the non-negative quotient num / den (half away from zero).
Round(num, den) == (2 * num + den) \div (2 * den)

\* Conversion of an int to uint8_t.
ToUint8(n) == n % 256

\* An int n converted to uint32_t compared with a small limit: a negative n
\* becomes n + 2^32 >= 2^31, which is above every limit used here.
Uint32Above(n, limit) == IF n < 0 THEN TRUE ELSE n > limit

\* XdrvMailbox.data_len: strlen of the decimal text of the number; 0 without data.
Digits(n) == IF n < 10 THEN 1 ELSE IF n < 100 THEN 2 ELSE IF n < 1000 THEN 3 ELSE 4
DataLen(data) ==
  IF data = NoData THEN 0
  ELSE IF data[1] < 0 THEN 1 + Digits(0 - data[1]) ELSE Digits(data[1])

\* atoi(subStr(sub_string, XdrvMailbox.data, ",", 1))
Atoi(data) == data[1]

\* The possible results of converting the float value v to uint8_t: the value
\* itself when it fits; out of range the conversion is undefined, and a build
\* either truncates the integer to 8 bits or saturates.
FloatToUint8(v) == IF v <= 255 THEN {v} ELSE {v % 256, 255}

(***************************************************************************)
(* Helper functions of the driver.                                         *)
(***************************************************************************)
\* Variant of OpenSecondsForPercentValue without the division by 100.
OpenSecondsUnscaled(timebase, percent_value) ==
  FloatToUint8(percent_value * timebase)

\* uint8_t OpenSecondsForPercentValue(index, percent_value): the set of
\* values the call can return for a channel with the given timebase.
OpenSecondsForPercentValue(timebase, percent_value) ==
  FloatToUint8(Round(percent_value * timebase, 100))

\* uint8_t FallbackValueSettingCalculated(index)
FallbackValueSettingCalculated(S, i) ==
  Round(S.timeprop[i].fallback_value * 100, 7)

\* Variant of SyncedState that takes the minutes over as seconds.
SyncedStateInMinutes(S, st) ==
  [i \in Chan |-> [st[i] EXCEPT !.fallback_value = FallbackValueSettingCalculated(S, i),
                                !.timebase = S.timeprop[i].timebase]]

\* Variants of SyncedState: one closes a channel whose timebase is 0, one stops
\* it, one starts the cycles of all channels again.
SyncedStateCloses(S, st) ==
  [i \in Chan |-> [st[i] EXCEPT !.fallback_value = FallbackValueSettingCalculated(S, i),
                                !.timebase = S.timeprop[i].timebase * 60,
                                !.is_open = st[i].is_open /\ S.timeprop[i].timebase # 0]]
SyncedStateStops(S, st) ==
  [i \in Chan |-> [st[i] EXCEPT !.fallback_value = FallbackValueSettingCalculated(S, i),
                                !.timebase = S.timeprop[i].timebase * 60,
                                !.is_running = st[i].is_running /\ S.timeprop[i].timebase # 0]]
SyncedStateRestarts(S, st) ==
  [i \in Chan |-> [st[i] EXCEPT !.fallback_value = FallbackValueSettingCalculated(S, i),
                                !.timebase = S.timeprop[i].timebase * 60,
                                !.seconds_running = 0]]

\* void SyncSettings(void): the runtime state after the copy.
SyncedState(S, st) ==
  [i \in Chan |-> [st[i] EXCEPT !.fallback_value = FallbackValueSettingCalculated(S, i),
                                !.timebase = S.timeprop[i].timebase * 60]]

SyncedFallbackAfter(S) == S.timeprop_cfg.fallback_time * 60 * 60

SyncedStartWithFallback(S) == S.timeprop_cfg.start_with_fallback = 1

(***************************************************************************)
(* State before FUNC_INIT: the zero-initialised runtime state.             *)
(***************************************************************************)
ZeroState ==
  [is_running |-> FALSE, is_open |-> FALSE, incoming_percent_value |-> 0,
   open_seconds_active |-> 0, fallback_value |-> 0, seconds_running |-> 0,
   last_received |-> 0, timebase |-> 0]

NoPower == [d \in Device |-> << >>]

Done(name, result) == op' = [name |-> name, result |-> result]

BootWith(settings) ==
  /\ pc = "boot"
  /\ Settings \in settings
  /\ Timepropsstate = [i \in Chan |-> ZeroState]
  /\ fallback_after_seconds = 0
  /\ start_with_fallback = FALSE
  /\ power = NoPower
  /\ response = NoResponse
  /\ op = [name |-> "none", result |-> "done"]
  /\ relay = [d \in Device |-> "NONE"]
  /\ cycle = [i \in Chan |-> [percent |-> 0, timebase |-> 0]]
  /\ ncmd = 0

(***************************************************************************)
(* void TimepropInit(void)                                                 *)
(***************************************************************************)
\* Variant of InitSeed without the test of the fallback value.
InitSeedAnyFallback(st, swf) ==
  IF swf /\ st.timebase # 0
    THEN [st EXCEPT !.is_running = TRUE, !.incoming_percent_value = st.fallback_value]
    ELSE st

\* The start_with_fallback loop body.
InitSeed(st, swf) ==
  IF swf /\ st.timebase # 0 /\ st.fallback_value # 0
    THEN [st EXCEPT !.is_running = TRUE, !.incoming_percent_value = st.fallback_value]
    ELSE st

\* Variant of InitPower without the test of the timebase.
InitPowerEveryRelay(st) == [d \in Device |-> <<POWER_OFF>>]

\* The power-off loop.
InitPower(st) ==
  [d \in Device |-> IF st[d - 1].timebase > 0 THEN <<POWER_OFF>> ELSE << >>]

TimepropInit ==
  /\ pc = "boot"
  /\ LET synced == SyncedState(Settings, Timepropsstate)
         swf == SyncedStartWithFallback(Settings)
     IN /\ Timepropsstate' = [i \in Chan |-> InitSeed(synced[i], swf)]
        /\ fallback_after_seconds' = SyncedFallbackAfter(Settings)
        /\ start_with_fallback' = swf
        /\ power' = InitPower(synced)
  /\ pc' = "run"
  /\ response' = NoResponse
  /\ Done("Init", "done")
  /\ UNCHANGED Settings

(***************************************************************************)
(* void TimepropEverySecond(void)                                          *)
(***************************************************************************)
\* Variants of TickSkips with one of the two tests only.
TickSkipsIdleOnly(st) == st.is_running = FALSE
TickSkipsDisabledOnly(st) == st.timebase = 0
TickSkipsUnlessOpen(st) == st.is_running = FALSE \/ (st.timebase = 0 /\ ~st.is_open)

\* The two `continue` tests at the head of the loop body.
TickSkips(st) == st.timebase = 0 \/ st.is_running = FALSE

\* Variant of CycleStart that takes the incoming value over every second.
CycleStartEverySecond(st) == TRUE

\* Beginning of a cycle: open_seconds_active is filled from the incoming value.
CycleStart(st) == st.seconds_running = 0

\* Variant of OpensNow that opens for an open time of 0 as well.
OpensNowAlways(open_seconds_active) == open_seconds_active >= 0

\* The relay is switched on at the beginning of a cycle ("prevent quick on/off").
OpensNow(open_seconds_active) == open_seconds_active > 0

\* Variant of ClosesNow without the test of is_open.
ClosesNowAnyway(seconds_running, open_seconds_active, is_open) ==
  seconds_running >= open_seconds_active

\* Variant of ClosesNow that waits for the second after the open time.
ClosesNowLate(seconds_running, open_seconds_active, is_open) ==
  seconds_running > open_seconds_active /\ is_open = TRUE

\* The relay is switched off once the open time has passed.
ClosesNow(seconds_running, open_seconds_active, is_open) ==
  seconds_running >= open_seconds_active /\ is_open = TRUE

\* Variants of FallbackDue: one second late, and without the test for zero.
FallbackDueLate(after_seconds, last_received) ==
  after_seconds > 0 /\ last_received > after_seconds
FallbackDueUnguarded(after_seconds, last_received) == last_received >= after_seconds

\* The fallback value takes over.
FallbackDue(after_seconds, last_received) ==
  after_seconds > 0 /\ last_received >= after_seconds

\* Variant of CycleOver that tests for the exact second.
CycleOverExactly(seconds_running, timebase) == seconds_running = timebase

\* Variant of CycleOver that lets the cycle run one second longer.
CycleOverLate(seconds_running, timebase) == seconds_running > timebase

\* The cycle is over.
CycleOver(seconds_running, timebase) == seconds_running >= timebase

\* One pass of the loop body for a channel in state st; `latched` is the value
\* OpenSecondsForPercentValue returns if it is called in this pass.
\* Result: the channel's new state and the power commands sent, in order.
ChannelSecond(st, after_seconds, latched) ==
  IF TickSkips(st) THEN [st |-> st, cmds |-> << >>]
  ELSE
    LET start == CycleStart(st)
        osa == IF start THEN latched ELSE st.open_seconds_active
        on == start /\ OpensNow(osa)
        open1 == IF on THEN TRUE ELSE st.is_open
        off == ClosesNow(st.seconds_running, osa, open1)
        open2 == IF off THEN FALSE ELSE open1
        sr == st.seconds_running + 1
        lr == st.last_received + 1
        fb == FallbackDue(after_seconds, lr)
    IN [st |-> [st EXCEPT !.open_seconds_active = osa,
                          !.is_open = open2,
                          !.seconds_running = IF CycleOver(sr, st.timebase) THEN 0 ELSE sr,
                          !.last_received = IF fb THEN 0 ELSE lr,
                          !.incoming_percent_value =
                              IF fb THEN st.fallback_value ELSE st.incoming_percent_value],
        cmds |-> (IF on THEN <<POWER_ON>> ELSE << >>) \o
                 (IF off THEN <<POWER_OFF>> ELSE << >>)]

\* Variant of LatchOutcomes in which the fallback value takes over before the
\* open time is taken.
LatchOutcomesAfterTakeover(st) ==
  IF ~TickSkips(st) /\ CycleStart(st)
    THEN OpenSecondsForPercentValue(st.timebase,
           IF FallbackDue(fallback_after_seconds, st.last_received + 1)
             THEN st.fallback_value ELSE st.incoming_percent_value)
    ELSE {st.open_seconds_active}

\* The values OpenSecondsForPercentValue can return for a channel in this Tick
\* (the current value stands in when it is not called).
LatchOutcomes(st) ==
  IF ~TickSkips(st) /\ CycleStart(st)
    THEN OpenSecondsForPercentValue(st.timebase, st.incoming_percent_value)
    ELSE {st.open_seconds_active}

\* One outcome per channel, for the first n channels (a sequence: channel i
\* is element i + 1).
RECURSIVE Latches(_, _)
Latches(states, n) ==
  IF n = 0 THEN {<< >>}
  ELSE {Append(l, v) : l \in Latches(states, n - 1), v \in LatchOutcomes(states[n - 1])}

TimepropEverySecond ==
  /\ pc = "run"
  /\ \E latched \in Latches(Timepropsstate, MAX_TIMEPROPS) :
       LET res == [i \in Chan |->
                     ChannelSecond(Timepropsstate[i], fallback_after_seconds, latched[i + 1])]
       IN /\ Timepropsstate' = [i \in Chan |-> res[i].st]
          /\ power' = [d \in Device |-> res[d - 1].cmds]
  /\ response' = NoResponse
  /\ Done("Tick", "done")
  /\ UNCHANGED <<pc, Settings, fallback_after_seconds, start_with_fallback>>

(***************************************************************************)
(* Commands.  index and data are XdrvMailbox.index and XdrvMailbox.data.   *)
(***************************************************************************)
\* if (XdrvMailbox.index < 1 || XdrvMailbox.index > MAX_TIMEPROPS) return;
IndexRejected(index) == index < 1 \/ index > MAX_TIMEPROPS

\* No command sends a power command.
Dispatched ==
  /\ pc = "run"
  /\ power' = NoPower
  /\ UNCHANGED pc

\* A command that leaves through a `return` before ResponseCmndNumber.
Returned(name) ==
  /\ response' = NoResponse
  /\ Done(name, "rejected")
  /\ UNCHANGED prog

\* A command without data: ResponseCmndNumber(value) only.
Read(name, value) ==
  /\ response' = <<value>>
  /\ Done(name, "read")
  /\ UNCHANGED prog

\* Variant of SaveAndSync without the call of SyncSettings.
SaveOnly(S) ==
  /\ Settings' = S
  /\ UNCHANGED <<Timepropsstate, fallback_after_seconds, start_with_fallback>>

\* SettingsSave(0); SyncSettings(); for the new persisted settings S.
SaveAndSync(S) ==
  /\ Settings' = S
  /\ Timepropsstate' = SyncedState(S, Timepropsstate)
  /\ fallback_after_seconds' = SyncedFallbackAfter(S)
  /\ start_with_fallback' = SyncedStartWithFallback(S)

\* Variant of SetValueRejected on a signed value without the test below zero.
SetValueRejectedAbove(n) == n > 100

\* uint32_t incoming_value; if (incoming_value < 0 || incoming_value > 100) return;
SetValueRejected(n) == Uint32Above(n, 100)

\* Variant of Accept that leaves last_received alone.
AcceptKeepsLastReceived(st, incoming_value) ==
  [st EXCEPT !.incoming_percent_value = ToUint8(incoming_value),
             !.is_running = TRUE]

\* The three assignments of an accepted TimepropSet.
Accept(st, incoming_value) ==
  [st EXCEPT !.incoming_percent_value = ToUint8(incoming_value),
             !.is_running = TRUE,
             !.last_received = 0]

CmndTimepropSet(index, data) ==
  /\ Dispatched
  /\ IF IndexRejected(index) THEN Returned("Set")
     ELSE IF DataLen(data) > 0
       THEN IF SetValueRejected(Atoi(data)) THEN Returned("Set")
            ELSE /\ Timepropsstate' =
                      [Timepropsstate EXCEPT ![index - 1] = Accept(@, Atoi(data))]
                 /\ response' = <<Timepropsstate'[index - 1].incoming_percent_value>>
                 /\ Done("Set", "accepted")
                 /\ UNCHANGED <<Settings, fallback_after_seconds, start_with_fallback>>
       ELSE Read("Set", Timepropsstate[index - 1].incoming_percent_value)

\* uint8_t incoming_value; if (incoming_value < 0 || incoming_value > 31) return;
TimeBaseRejected(n) == ToUint8(n) < 0 \/ ToUint8(n) > 31

CmndTimepropTimeBase(index, data) ==
  /\ Dispatched
  /\ IF IndexRejected(index) THEN Returned("TimeBase")
     ELSE IF DataLen(data) > 0
       THEN IF TimeBaseRejected(Atoi(data)) THEN Returned("TimeBase")
            ELSE /\ SaveAndSync([Settings EXCEPT
                                   !.timeprop[index - 1].timebase = ToUint8(Atoi(data))])
                 /\ response' = <<Settings'.timeprop[index - 1].timebase>>
                 /\ Done("TimeBase", "accepted")
       ELSE Read("TimeBase", Settings.timeprop[index - 1].timebase)

\* uint32_t incoming_value; if (incoming_value < 0 || incoming_value > 100) return;
FallbackvalueRejected(n) == Uint32Above(n, 100)

\* Variant of StoreValue that truncates instead of rounding.
StoreValueTruncated(percent) == ToUint8((7 * percent) \div 100)

\* uint8_t store_value = round((float)7 * (float)incoming_value / (float)100);
StoreValue(percent) == ToUint8(Round(7 * percent, 100))

\* round((float)Settings->timeprop[index - 1].fallback_value * (float)100 / (float)7)
FallbackvalueResponse(S, index) == Round(S.timeprop[index - 1].fallback_value * 100, 7)

CmndTimepropFallbackvalue(index, data) ==
  /\ Dispatched
  /\ IF IndexRejected(index) THEN Returned("FallbackValue")
     ELSE IF DataLen(data) > 0
       THEN IF FallbackvalueRejected(Atoi(data)) THEN Returned("FallbackValue")
            ELSE /\ SaveAndSync([Settings EXCEPT
                                   !.timeprop[index - 1].fallback_value =
                                       StoreValue(Atoi(data))])
                 /\ response' = <<FallbackvalueResponse(Settings', index)>>
                 /\ Done("FallbackValue", "accepted")
       ELSE Read("FallbackValue", FallbackvalueResponse(Settings, index))

\* uint8_t incoming_value; if (incoming_value < 0 || incoming_value > 1) return;
StartWithFallbackRejected(n) == ToUint8(n) < 0 \/ ToUint8(n) > 1

CmndTimepropStartWithFallback(data) ==
  /\ Dispatched
  /\ IF DataLen(data) = 1
       THEN IF StartWithFallbackRejected(Atoi(data)) THEN Returned("StartWithFallback")
            ELSE /\ SaveAndSync([Settings EXCEPT
                                   !.timeprop_cfg.start_with_fallback = ToUint8(Atoi(data))])
                 /\ response' = <<Settings'.timeprop_cfg.start_with_fallback>>
                 /\ Done("StartWithFallback", "accepted")
       ELSE Read("StartWithFallback", Settings.timeprop_cfg.start_with_fallback)

\* uint8_t incoming_value; if (incoming_value < 0 || incoming_value > 127) return;
FallbackAfterRejected(n) == ToUint8(n) < 0 \/ ToUint8(n) > 127

CmndTimepropFallbackAfter(data) ==
  /\ Dispatched
  /\ IF DataLen(data) > 0
       THEN IF FallbackAfterRejected(Atoi(data)) THEN Returned("FallbackAfter")
            ELSE /\ SaveAndSync([Settings EXCEPT
                                   !.timeprop_cfg.fallback_time = ToUint8(Atoi(data))])
                 /\ response' = <<Settings'.timeprop_cfg.fallback_time>>
                 /\ Done("FallbackAfter", "accepted")
       ELSE Read("FallbackAfter", Settings.timeprop_cfg.fallback_time)

(***************************************************************************)
(* History variables, updated with every operation.                        *)
(***************************************************************************)
\* The relay state after a sequence of power commands.
RelayAfter(old, cmds) == IF cmds = << >> THEN old ELSE cmds[Len(cmds)]

\* A Tick that begins a cycle of channel state st.
BeginsCycle(st) == ~TickSkips(st) /\ CycleStart(st)

Observe ==
  /\ relay' = [d \in Device |-> RelayAfter(relay[d], power'[d])]
  /\ cycle' = [i \in Chan |->
                 IF op'.name = "Tick" /\ BeginsCycle(Timepropsstate[i])
                   THEN [percent |-> Timepropsstate[i].incoming_percent_value,
                         timebase |-> Timepropsstate[i].timebase]
                   ELSE cycle[i]]

\* The largest last_received among the channels the Tick advances.
Staleness ==
  LET S == {Timepropsstate[i].last_received :
              i \in {j \in Chan : ~TickSkips(Timepropsstate[j])}}
  IN IF S = {} THEN 0 ELSE CHOOSE m \in S : \A x \in S : x <= m

(***************************************************************************)
(* Spec: boot with any of a set of persisted settings, then Ticks and a    *)
(* bounded number of commands, in any order.                               *)
(***************************************************************************)
\* Per channel settings; every channel gets each of them in some boot.
BootProfiles ==
  << [timebase |-> 1, fallback_value |-> 3], [timebase |-> 0, fallback_value |-> 3],
     [timebase |-> 5, fallback_value |-> 7], [timebase |-> 1, fallback_value |-> 0] >>

Rotated(profiles, r) ==
  [i \in Chan |-> profiles[((i + r) % Len(profiles)) + 1]]

BootSettings ==
  { [timeprop |-> Rotated(BootProfiles, r), timeprop_cfg |-> cfg] :
      r \in Chan, cfg \in [fallback_time : {0, 1}, start_with_fallback : {0, 1}] }
  \cup
  { [timeprop |-> [i \in Chan |-> [timebase |-> 0, fallback_value |-> 0]],
     timeprop_cfg |-> [fallback_time |-> 0, start_with_fallback |-> 0]] }

Init == BootWith(BootSettings)

Boot == TimepropInit /\ Observe /\ UNCHANGED ncmd

Tick == Staleness < MaxLast /\ TimepropEverySecond /\ Observe /\ UNCHANGED ncmd

Command == ncmd < MaxCmds /\ ncmd' = ncmd + 1

Set ==
  /\ Command
  /\ \E index \in IndexInputs, data \in Payloads(PercentInputs) : CmndTimepropSet(index, data)
  /\ Observe

TimeBase ==
  /\ Command
  /\ \E index \in IndexInputs, data \in Payloads(MinuteInputs) :
       CmndTimepropTimeBase(index, data)
  /\ Observe

FallbackValue ==
  /\ Command
  /\ \E index \in IndexInputs, data \in Payloads(FallbackInputs) :
       CmndTimepropFallbackvalue(index, data)
  /\ Observe

StartWithFallback ==
  /\ Command
  /\ \E data \in Payloads(FlagInputs) : CmndTimepropStartWithFallback(data)
  /\ Observe

FallbackAfter ==
  /\ Command
  /\ \E data \in Payloads(HourInputs) : CmndTimepropFallbackAfter(data)
  /\ Observe

Next == Boot \/ Tick \/ Set \/ TimeBase \/ FallbackValue \/ StartWithFallback \/ FallbackAfter

Spec == Init /\ [][Next]_vars

(***************************************************************************)
(* SpecCycle: whole cycles.  Channel 0 is driven with a one minute         *)
(* timebase, the fallback time is off, TimepropSet arrives at any moment,  *)
(* any number of times.                                                    *)
(***************************************************************************)
\* Channel 0 and start_with_fallback.
CycleProfiles ==
  { << [timebase |-> 1, fallback_value |-> 3], 1 >>,
    << [timebase |-> 1, fallback_value |-> 0], 0 >> }

\* Channel 1 is disabled, channel 2 is enabled and never set, the rest is disabled.
Bystanders(i) ==
  IF i = 1 THEN [timebase |-> 0, fallback_value |-> 3]
  ELSE IF i = 2 THEN [timebase |-> 1, fallback_value |-> 0]
  ELSE [timebase |-> 0, fallback_value |-> 0]

CycleBootSettings ==
  { [timeprop |-> [i \in Chan |-> IF i = 0 THEN c[1] ELSE Bystanders(i)],
     timeprop_cfg |-> [fallback_time |-> 0, start_with_fallback |-> c[2]]] :
      c \in CycleProfiles }

CycleIndexInputs == {0, 1, MAX_TIMEPROPS + 1}

CyclePercentInputs == {0, 30, 100, 101}

InitCycle == BootWith(CycleBootSettings)

CycleTick == Staleness < CycleMaxLast /\ TimepropEverySecond /\ Observe /\ UNCHANGED ncmd

CycleSet ==
  /\ \E index \in CycleIndexInputs, data \in Payloads(CyclePercentInputs) :
       CmndTimepropSet(index, data)
  /\ Observe
  /\ UNCHANGED ncmd

NextCycle == Boot \/ CycleTick \/ CycleSet

SpecCycle == InitCycle /\ [][NextCycle]_vars

(***************************************************************************)
(* SpecLong: long runs.  Channel 0 is driven with a one minute timebase    *)
(* and a fallback time of one hour or none, or with a five minute timebase *)
(* and no fallback time; TimepropSet arrives in the first seconds of a     *)
(* cycle, any number of times.                                             *)
(***************************************************************************)
\* Channel 0 and the fallback time.
LongProfiles ==
  { << [timebase |-> 1, fallback_value |-> 3], 1 >>,
    << [timebase |-> 1, fallback_value |-> 3], 0 >>,
    << [timebase |-> 5, fallback_value |-> 7], 0 >> }

LongBootSettings ==
  { [timeprop |-> [i \in Chan |-> IF i = 0 THEN c[1] ELSE Bystanders(i)],
     timeprop_cfg |-> [fallback_time |-> c[2], start_with_fallback |-> f]] :
      c \in LongProfiles, f \in {0, 1} }

LongPercentInputs == {30, 100, 101}

InitLong == BootWith(LongBootSettings)

LongTick == Staleness < LongMaxLast /\ TimepropEverySecond /\ Observe /\ UNCHANGED ncmd

LongSet ==
  /\ Timepropsstate[0].seconds_running < SetWindow
  /\ \E index \in CycleIndexInputs, data \in Payloads(LongPercentInputs) :
       CmndTimepropSet(index, data)
  /\ Observe
  /\ UNCHANGED ncmd

NextLong == Boot \/ LongTick \/ LongSet

SpecLong == InitLong /\ [][NextLong]_vars

(***************************************************************************)
(* Properties.                                                             *)
(***************************************************************************)
Driven(st) == ~TickSkips(st)

Ended(name, result) == op.name = name /\ op.result = result

\* C1: a Tick sends no power command, ON or OFF, to the relay of a channel
\* whose timebase is 0, whatever the rest of the channel's state.
C1_DisabledChannelSilent ==
  op.name = "Tick" =>
    \A i \in Chan : Timepropsstate[i].timebase = 0 => power[i + 1] = << >>

\* A Tick has passed over a channel that was disabled while its relay was
\* open and its cycle under way.
C1_Witness ==
  /\ op.name = "Tick"
  /\ \E i \in Chan :
       /\ Timepropsstate[i].timebase = 0
       /\ Timepropsstate[i].is_running
       /\ Timepropsstate[i].is_open
       /\ Timepropsstate[i].seconds_running > 0
       /\ relay[i + 1] = POWER_ON

\* C6: TimepropInit sends exactly one OFF to the relay of every channel whose
\* timebase is not 0, nothing to the relay of a channel whose timebase is 0,
\* and no ON at all.
C6_InitPowersOff ==
  op.name = "Init" =>
    \A i \in Chan :
      /\ Settings.timeprop[i].timebase # 0 <=> Timepropsstate[i].timebase # 0
      /\ power[i + 1] = IF Timepropsstate[i].timebase # 0 THEN <<POWER_OFF>> ELSE << >>

\* TimepropInit has run with an enabled channel it seeded (switched off, not
\* on) and a disabled channel.
C6_Witness ==
  /\ op.name = "Init"
  /\ \E i, j \in Chan :
       /\ Timepropsstate[i].is_running
       /\ power[i + 1] = <<POWER_OFF>>
       /\ Timepropsstate[j].timebase = 0
       /\ power[j + 1] = << >>

\* C7: after TimepropInit with start_with_fallback set, a channel with a
\* timebase above 0 and a fallback value above 0 is running with the fallback
\* value as its incoming value, and every other channel is idle; with
\* start_with_fallback clear every channel is idle.
C7_StartupSeeding ==
  op.name = "Init" =>
    /\ start_with_fallback <=> Settings.timeprop_cfg.start_with_fallback = 1
    /\ \A i \in Chan :
         LET st == Timepropsstate[i]
         IN IF start_with_fallback /\ st.timebase > 0 /\ st.fallback_value > 0
              THEN st.is_running /\ st.incoming_percent_value = st.fallback_value
              ELSE ~st.is_running /\ st.incoming_percent_value = 0

\* TimepropInit has run with start_with_fallback set: one channel seeded, one
\* enabled with fallback value 0 left idle, one with a fallback value but
\* timebase 0 left idle.
C7_Witness ==
  /\ op.name = "Init"
  /\ start_with_fallback
  /\ \E i, j, k \in Chan :
       /\ Timepropsstate[i].is_running
       /\ Timepropsstate[i].incoming_percent_value = 43
       /\ Timepropsstate[j].timebase > 0
       /\ Timepropsstate[j].fallback_value = 0
       /\ ~Timepropsstate[j].is_running
       /\ Timepropsstate[k].timebase = 0
       /\ Timepropsstate[k].fallback_value > 0
       /\ ~Timepropsstate[k].is_running

\* TimepropInit has run with start_with_fallback clear over channels that
\* have a timebase and a fallback value.
C7_WitnessClear ==
  /\ op.name = "Init"
  /\ ~start_with_fallback
  /\ \E i \in Chan : Timepropsstate[i].timebase > 0 /\ Timepropsstate[i].fallback_value > 0

\* The power commands of a sequence, as a set.
Sent(cmds) == {cmds[k] : k \in 1 .. Len(cmds)}

\* The second of its cycle the last Tick handled for a driven channel.
TickedSecond(st) ==
  IF st.seconds_running = 0 THEN st.timebase - 1 ELSE st.seconds_running - 1

\* After a Tick of a driven channel whose timebase and incoming value are
\* those of the beginning of its cycle: the relay is on in the first
\* round(percent / 100 * timebase) seconds of the cycle and off in the rest.
OnForItsShare(i) ==
  LET st == Timepropsstate[i]
  IN (/\ op.name = "Tick"
      /\ Driven(st)
      /\ st.timebase = cycle[i].timebase
      /\ st.incoming_percent_value = cycle[i].percent)
     => relay[i + 1] = IF TickedSecond(st) < Round(cycle[i].percent * st.timebase, 100)
                         THEN POWER_ON ELSE POWER_OFF

\* C2: with the incoming value p and the timebase T constant over a cycle, the
\* relay is on for exactly round(p / 100 * T) consecutive seconds from the
\* beginning of the cycle and off for the rest of it, for every p in 0 .. 100
\* and every timebase that can be configured.
C2_DutyCycle == \A i \in Chan : OnForItsShare(i)

\* The same for the timebases whose every share fits open_seconds_active.
C2_DutyCycleUpTo255 ==
  \A i \in Chan : Timepropsstate[i].timebase <= 255 => OnForItsShare(i)

\* C3: a TimepropSet accepted inside a cycle (seconds_running # 0) leaves
\* open_seconds_active, is_open and seconds_running alone and sends no power
\* command; a Tick inside a cycle sends no ON, keeps open_seconds_active and
\* sends OFF exactly when the open relay has reached the open time taken at
\* the beginning of the cycle; the Tick that begins a cycle takes the open
\* time from the incoming value of that moment and sends ON iff it is above 0.
C3_Latch ==
  [][\A i \in Chan :
       LET st == Timepropsstate[i]
           new == Timepropsstate'[i]
       IN /\ (op'.name = "Set" /\ op'.result = "accepted" /\ st.seconds_running # 0)
             => /\ new.open_seconds_active = st.open_seconds_active
                /\ new.is_open = st.is_open
                /\ new.seconds_running = st.seconds_running
                /\ power'[i + 1] = << >>
          /\ (op'.name = "Tick" /\ Driven(st) /\ st.seconds_running # 0)
             => /\ POWER_ON \notin Sent(power'[i + 1])
                /\ new.open_seconds_active = st.open_seconds_active
                /\ new.open_seconds_active \in
                     OpenSecondsForPercentValue(cycle[i].timebase, cycle[i].percent)
                /\ POWER_OFF \in Sent(power'[i + 1])
                     <=> (st.is_open /\ st.seconds_running >= st.open_seconds_active)
          /\ (op'.name = "Tick" /\ Driven(st) /\ st.seconds_running = 0)
             => /\ new.open_seconds_active \in
                     OpenSecondsForPercentValue(st.timebase, st.incoming_percent_value)
                /\ POWER_ON \in Sent(power'[i + 1]) <=> new.open_seconds_active > 0
    ]_vars

\* TimepropSet 100 was accepted inside a cycle that began with 30: the relay
\* is still open for the 18 seconds of the 30.
C3_Witness ==
  /\ Ended("Set", "accepted")
  /\ \E i \in Chan :
       /\ Driven(Timepropsstate[i])
       /\ Timepropsstate[i].seconds_running > 0
       /\ Timepropsstate[i].incoming_percent_value = 100
       /\ cycle[i].percent = 30
       /\ Timepropsstate[i].open_seconds_active = 18
       /\ Timepropsstate[i].is_open

\* C4: with a fallback time F above 0, the Tick that takes last_received of a
\* driven channel to F sets its incoming value to its fallback value and
\* last_received to 0; a Tick that leaves last_received below F adds one to
\* it and keeps the incoming value.
C4_FallbackTakeover ==
  [][\A i \in Chan :
       LET st == Timepropsstate[i]
           new == Timepropsstate'[i]
       IN (op'.name = "Tick" /\ Driven(st) /\ fallback_after_seconds > 0)
          => IF st.last_received + 1 >= fallback_after_seconds
               THEN /\ new.incoming_percent_value = st.fallback_value
                    /\ new.last_received = 0
               ELSE /\ new.incoming_percent_value = st.incoming_percent_value
                    /\ new.last_received = st.last_received + 1
    ]_vars

\* The fallback value 43 has taken over in a cycle that began with the 30 of
\* a TimepropSet.
C4_Witness ==
  /\ op.name = "Tick"
  /\ fallback_after_seconds = 3600
  /\ \E i \in Chan :
       /\ Driven(Timepropsstate[i])
       /\ Timepropsstate[i].last_received = 0
       /\ Timepropsstate[i].incoming_percent_value = 43
       /\ cycle[i].percent = 30

\* C5: with the fallback time 0, a Tick changes no incoming value and never
\* sets last_received back (it adds one for a driven channel), and only an
\* accepted TimepropSet changes an incoming value.
C5_NoFallbackWhenOff ==
  [][(pc = "run" /\ fallback_after_seconds = 0) =>
       \A i \in Chan :
         LET st == Timepropsstate[i]
             new == Timepropsstate'[i]
         IN /\ op'.name = "Tick" =>
                 /\ new.incoming_percent_value = st.incoming_percent_value
                 /\ new.last_received = IF Driven(st) THEN st.last_received + 1
                                                      ELSE st.last_received
            /\ new.incoming_percent_value # st.incoming_percent_value
                 => (op'.name = "Set" /\ op'.result = "accepted")
    ]_vars

\* Without a fallback time a channel has gone more than an hour since its
\* TimepropSet 30 and still has that value, not its fallback value 43.
C5_Witness ==
  /\ op.name = "Tick"
  /\ fallback_after_seconds = 0
  /\ \E i \in Chan :
       /\ Driven(Timepropsstate[i])
       /\ Timepropsstate[i].last_received > 3600
       /\ Timepropsstate[i].incoming_percent_value = 30
       /\ Timepropsstate[i].fallback_value = 43

\* C8: a Tick changes no field of a channel that is not running and sends its
\* relay nothing; a channel starts running only in TimepropInit (seeding) or
\* in an accepted TimepropSet.
C8_IdleUntilSet ==
  [][\A i \in Chan :
       LET st == Timepropsstate[i]
           new == Timepropsstate'[i]
       IN /\ (op'.name = "Tick" /\ ~st.is_running) => (new = st /\ power'[i + 1] = << >>)
          /\ (~st.is_running /\ new.is_running)
               => (op'.name = "Init" \/ (op'.name = "Set" /\ op'.result = "accepted"))
    ]_vars

\* With a fallback time of one hour the fallback value has taken over on one
\* channel while an enabled channel that was never set is still untouched.
C8_Witness ==
  /\ op.name = "Tick"
  /\ fallback_after_seconds = 3600
  /\ \E i, j \in Chan :
       /\ Driven(Timepropsstate[i])
       /\ Timepropsstate[i].last_received = 0
       /\ cycle[i].percent = 30
       /\ Timepropsstate[j].timebase > 0
       /\ ~Timepropsstate[j].is_running
       /\ Timepropsstate[j].seconds_running = 0
       /\ Timepropsstate[j].last_received = 0
       /\ relay[j + 1] = POWER_OFF

\* The percent values of the inputs that TimepropSet has to accept.
ValidPercents == {n \in PercentInputs : 0 <= n /\ n <= 100}

\* TimepropSet without data answers the incoming value and changes nothing.
ReadsIncoming(index) ==
  CmndTimepropSet(index, NoData) =>
    /\ response' = <<Timepropsstate[index - 1].incoming_percent_value>>
    /\ UNCHANGED prog

\* C9: TimepropSet<i> p with 1 <= i <= MAX_TIMEPROPS and 0 <= p <= 100 sets
\* the incoming value of channel i to p, is_running to true and last_received
\* to 0 and answers p; the TimepropSet<i> without data that follows answers
\* the incoming value, that is p.
C9_SetValue ==
  [][\A index \in Device :
       /\ \A p \in ValidPercents :
            CmndTimepropSet(index, <<p>>) =>
              /\ Timepropsstate'[index - 1].incoming_percent_value = p
              /\ Timepropsstate'[index - 1].is_running
              /\ Timepropsstate'[index - 1].last_received = 0
              /\ response' = <<p>>
       /\ ReadsIncoming(index)
    ]_vars

\* TimepropSet 30 on a channel that had been driven for a while, then the
\* TimepropSet without data that answers 30.
C9_Witness ==
  /\ Ended("Set", "read")
  /\ ncmd = 2
  /\ response = <<30>>
  /\ \E i \in Chan :
       /\ Timepropsstate[i].incoming_percent_value = 30
       /\ Timepropsstate[i].is_running
       /\ Timepropsstate[i].last_received = 0
       /\ Timepropsstate[i].seconds_running > 0

\* The inputs TimepropSet has to ignore: an index outside 1 .. MAX_TIMEPROPS,
\* a number below 0 or above 100.
Invalid(index, data) ==
  \/ index < 1
  \/ index > MAX_TIMEPROPS
  \/ (data # NoData /\ (Atoi(data) < 0 \/ Atoi(data) > 100))

\* C10: TimepropSet with an index outside 1 .. MAX_TIMEPROPS or a number below
\* 0 or above 100 changes no field of any channel, no global and no persisted
\* setting and sends no power command; the TimepropSet<i> without data that
\* follows answers the unchanged incoming value.
C10_InvalidSetIgnored ==
  [][/\ \A index \in IndexInputs, data \in Payloads(PercentInputs) :
          (Invalid(index, data) /\ CmndTimepropSet(index, data))
            => (UNCHANGED prog /\ power' = NoPower)
     /\ \A index \in Device : ReadsIncoming(index)
    ]_vars

\* A TimepropSet was ignored after an accepted TimepropSet 30.
C10_Witness ==
  /\ Ended("Set", "rejected")
  /\ ncmd = 2
  /\ \E i \in Chan :
       /\ Timepropsstate[i].incoming_percent_value = 30
       /\ Timepropsstate[i].is_running

\* The numbers of a set of inputs that are outside lo .. hi.
Outside(inputs, lo, hi) == {n \in inputs : n < lo \/ n > hi}

\* C11: every setter called with a valid index and a number outside its
\* range answers the value the parameter had before the call.
C11_RejectedSetterEchoes ==
  [][/\ \A index \in Device :
          /\ \A p \in Outside(PercentInputs, 0, 100) :
               CmndTimepropSet(index, <<p>>) =>
                 response' = <<Timepropsstate[index - 1].incoming_percent_value>>
          /\ \A m \in Outside(MinuteInputs, 0, 31) :
               CmndTimepropTimeBase(index, <<m>>) =>
                 response' = <<Settings.timeprop[index - 1].timebase>>
          /\ \A p \in Outside(FallbackInputs, 0, 100) :
               CmndTimepropFallbackvalue(index, <<p>>) =>
                 response' = <<FallbackvalueResponse(Settings, index)>>
     /\ \A f \in Outside(FlagInputs, 0, 1) :
          CmndTimepropStartWithFallback(<<f>>) =>
            response' = <<Settings.timeprop_cfg.start_with_fallback>>
     /\ \A h \in Outside(HourInputs, 0, 127) :
          CmndTimepropFallbackAfter(<<h>>) =>
            response' = <<Settings.timeprop_cfg.fallback_time>>
    ]_vars

(***************************************************************************)
(* SpecQuant: boot, then TimepropFallbackValue with every number from -1   *)
(* to 101, any number of times.                                            *)
(***************************************************************************)
QuantInputs == -1 .. 101

InitQuant == BootWith(LongBootSettings)

QuantFallbackValue ==
  /\ \E index \in CycleIndexInputs, data \in Payloads(QuantInputs) :
       CmndTimepropFallbackvalue(index, data)
  /\ Observe
  /\ UNCHANGED ncmd

NextQuant == Boot \/ QuantFallbackValue

SpecQuant == InitQuant /\ [][NextQuant]_vars

\* The 8 possible fallback values.
FallbackLevels == {0, 14, 29, 43, 57, 71, 86, 100}

Abs(n) == IF n < 0 THEN -n ELSE n

\* C12: for every p in 0 .. 100, TimepropFallbackValue<i> p stores the level
\* round(7 * p / 100), which is in 0 .. 7; its answer and the fallback value
\* of the channel afterwards are the same member of {0, 14, 29, 43, 57, 71,
\* 86, 100}, and no member of that set is nearer to p.
C12_QuantizedFallback ==
  [][\A index \in Device, p \in 0 .. 100 :
       CmndTimepropFallbackvalue(index, <<p>>) =>
         LET level == Settings'.timeprop[index - 1].fallback_value
             value == Timepropsstate'[index - 1].fallback_value
         IN /\ level \in 0 .. 7
            /\ level = Round(7 * p, 100)
            /\ response' = <<value>>
            /\ value \in FallbackLevels
            /\ \A l \in FallbackLevels : Abs(value - p) <= Abs(l - p)
    ]_vars

\* TimepropFallbackValue has stored level 4 and answered 57 on a channel
\* whose level was another before.
C12_Witness ==
  /\ Ended("FallbackValue", "accepted")
  /\ response = <<57>>
  /\ \E i \in Chan :
       /\ Settings.timeprop[i].fallback_value = 4
       /\ Timepropsstate[i].fallback_value = 57

C14_InvalidTimeBaseIgnored ==
  [][\A index \in Device, m \in Outside(MinuteInputs, 0, 31) :
       CmndTimepropTimeBase(index, <<m>>) =>
         \A i \in Chan :
           /\ Settings'.timeprop[i].timebase = Settings.timeprop[i].timebase
           /\ Timepropsstate'[i].timebase = Timepropsstate[i].timebase
    ]_vars

\* C15: TimepropFallbackAfter h with h outside 0 .. 127, negative numbers and
\* numbers from 256 on included, leaves the stored hours and
\* fallback_after_seconds as they were.
C15_InvalidFallbackAfterIgnored ==
  [][\A h \in Outside(HourInputs, 0, 127) :
       CmndTimepropFallbackAfter(<<h>>) =>
         /\ Settings'.timeprop_cfg.fallback_time = Settings.timeprop_cfg.fallback_time
         /\ fallback_after_seconds' = fallback_after_seconds
    ]_vars

(***************************************************************************)
(* SpecRebase: channel 0 starts with its fallback value and a timebase of  *)
(* 1 or 5 minutes; Ticks for more than a minute, and TimepropTimeBase at   *)
(* any moment, any number of times.                                        *)
(***************************************************************************)
RebaseProfiles ==
  { [timebase |-> 5, fallback_value |-> 3], [timebase |-> 1, fallback_value |-> 3] }

RebaseBootSettings ==
  { [timeprop |-> [i \in Chan |-> IF i = 0 THEN c ELSE Bystanders(i)],
     timeprop_cfg |-> [fallback_time |-> 0, start_with_fallback |-> 1]] :
      c \in RebaseProfiles }

RebaseMinuteInputs == {0, 1, 5, 32}

InitRebase == BootWith(RebaseBootSettings)

RebaseTick == Staleness < CycleMaxLast /\ TimepropEverySecond /\ Observe /\ UNCHANGED ncmd

RebaseTimeBase ==
  /\ \E index \in CycleIndexInputs, data \in Payloads(RebaseMinuteInputs) :
       CmndTimepropTimeBase(index, data)
  /\ Observe
  /\ UNCHANGED ncmd

NextRebase == Boot \/ RebaseTick \/ RebaseTimeBase

SpecRebase == InitRebase /\ [][NextRebase]_vars

\* seconds_running has passed the timebase of an enabled channel.
PastTimebase(st) == st.timebase > 0 /\ st.seconds_running >= st.timebase

\* C16: in every state, between any two operations, every channel with a
\* timebase above 0 has seconds_running below its timebase, also right after
\* a TimepropTimeBase that shortens the timebase of a cycle in progress.
C16_SecondsBelowTimebase == \A i \in Chan : ~PastTimebase(Timepropsstate[i])

\* C16 as amended: after TimepropInit and after every Tick every channel with
\* a timebase above 0 has seconds_running below its timebase; seconds_running
\* at or above the timebase arises only in an accepted TimepropTimeBase that
\* changes the timebase of the channel.
C16_SecondsBelowTimebaseAfterTick ==
  [][\A i \in Chan :
       LET st == Timepropsstate[i]
           new == Timepropsstate'[i]
       IN /\ op'.name \in {"Init", "Tick"} => ~PastTimebase(new)
          /\ (PastTimebase(new) /\ ~PastTimebase(st))
               => /\ op'.name = "TimeBase" /\ op'.result = "accepted"
                  /\ new.timebase # st.timebase
    ]_vars

\* A cycle that began with a timebase of 5 minutes was cut to 1 minute after
\* more than 60 seconds, and the Tick that followed has ended it.
C16_Witness ==
  /\ op.name = "Tick"
  /\ \E i \in Chan :
       /\ Timepropsstate[i].timebase = 60
       /\ cycle[i].timebase = 300
       /\ Timepropsstate[i].seconds_running = 0
       /\ Timepropsstate[i].last_received > 60

\* The open time is above the timebase.
OpenPastTimebase(st) == st.open_seconds_active > st.timebase

\* C17: in every state open_seconds_active of every channel is at most the
\* timebase the channel has in that state, also after a TimepropTimeBase that
\* changes the timebase while a cycle is in progress.
C17_OpenTimeWithinTimebase == \A i \in Chan : ~OpenPastTimebase(Timepropsstate[i])

\* C17 as amended: the open time a Tick takes at the beginning of a cycle is
\* at most the timebase of that moment, and open_seconds_active never is
\* above the timebase its cycle began with; it comes to be above the
\* timebase of the channel only in an accepted TimepropTimeBase that changes
\* that timebase.
C17_OpenTimeWithinCycleTimebase ==
  [][\A i \in Chan :
       LET st == Timepropsstate[i]
           new == Timepropsstate'[i]
       IN /\ (op'.name = "Tick" /\ BeginsCycle(st))
               => new.open_seconds_active <= st.timebase
          /\ new.open_seconds_active <= cycle'[i].timebase
          /\ (OpenPastTimebase(new) /\ ~OpenPastTimebase(st))
               => /\ op'.name = "TimeBase" /\ op'.result = "accepted"
                  /\ new.timebase # st.timebase
                  /\ new.open_seconds_active = st.open_seconds_active
    ]_vars

\* A channel has the open time 26 of 43 percent of a minute, and
\* TimepropTimeBase has set its timebase to 0 in the middle of the cycle.
C17_Witness ==
  /\ Ended("TimeBase", "accepted")
  /\ \E i \in Chan :
       /\ Timepropsstate[i].open_seconds_active = 26
       /\ cycle[i].timebase = 60
       /\ Timepropsstate[i].timebase = 0
       /\ Timepropsstate[i].seconds_running > 0

\* C18: in every state a channel with is_open has is_running and a timebase
\* above 0.
C18_OpenOnlyWhenDriven ==
  \A i \in Chan :
    Timepropsstate[i].is_open =>
      (Timepropsstate[i].is_running /\ Timepropsstate[i].timebase > 0)

\* A channel is open while its timebase is 0.
OpenDisabled(st) == st.is_open /\ st.timebase = 0

\* C18 as amended: a channel with is_open has is_running; a channel comes to
\* be open with the timebase 0 only in an accepted TimepropTimeBase on an
\* open channel, and a Tick then sends it nothing and leaves is_open set.
C18_OpenOnlyWhenRunning ==
  [][\A i \in Chan :
       LET st == Timepropsstate[i]
           new == Timepropsstate'[i]
       IN /\ new.is_open => new.is_running
          /\ (OpenDisabled(new) /\ ~OpenDisabled(st))
               => (st.is_open /\ op'.name = "TimeBase" /\ op'.result = "accepted")
          /\ (OpenDisabled(st) /\ op'.name = "Tick")
               => (new = st /\ power'[i + 1] = << >>)
    ]_vars

\* A Tick has passed over a channel that is open with the timebase 0; its
\* relay is still on.
C18_Witness ==
  /\ op.name = "Tick"
  /\ \E i \in Chan :
       /\ OpenDisabled(Timepropsstate[i])
       /\ relay[i + 1] = POWER_ON
       /\ cycle[i].timebase > 0

\* C19: for every timebase of 1 to 31 minutes and every percent value from 0
\* to 100, the open time that a Tick gets from OpenSecondsForPercentValue at
\* the beginning of a cycle and puts into open_seconds_active is
\* round(percent / 100 * timebase): the result fits the 8 bits.
C19_OpenSecondsFit ==
  [][\A i \in Chan :
       LET st == Timepropsstate[i]
       IN (op'.name = "Tick" /\ BeginsCycle(st))
          => Timepropsstate'[i].open_seconds_active =
               Round(st.incoming_percent_value * st.timebase, 100)
    ]_vars

\* C20: a Tick at the beginning of a cycle that gets the open time 0 sends no
\* ON; if the relay is still open from the cycle before, it sends OFF and
\* clears is_open, otherwise it sends nothing; the later Ticks of that cycle
\* send the channel nothing.
C20_ZeroCycle ==
  [][\A i \in Chan :
       LET st == Timepropsstate[i]
           new == Timepropsstate'[i]
       IN /\ (op'.name = "Tick" /\ BeginsCycle(st) /\ new.open_seconds_active = 0)
               => /\ power'[i + 1] = IF st.is_open THEN <<POWER_OFF>> ELSE << >>
                  /\ ~new.is_open
          /\ (op'.name = "Tick" /\ Driven(st) /\ st.seconds_running # 0
                /\ st.open_seconds_active = 0)
               => (power'[i + 1] = << >> /\ ~new.is_open)
    ]_vars

\* The first Tick of a cycle of 0 percent has switched off the relay that a
\* cycle of 100 percent had left on.
C20_Witness ==
  /\ op.name = "Tick"
  /\ \E i \in Chan :
       /\ cycle[i].percent = 0
       /\ Timepropsstate[i].open_seconds_active = 0
       /\ Timepropsstate[i].seconds_running = 1
       /\ power[i + 1] = <<POWER_OFF>>
       /\ ~Timepropsstate[i].is_open

\* Late in a cycle of 0 percent the Tick has sent nothing.
C20_WitnessLater ==
  /\ op.name = "Tick"
  /\ \E i \in Chan :
       /\ cycle[i].percent = 0
       /\ Timepropsstate[i].open_seconds_active = 0
       /\ Timepropsstate[i].seconds_running = 30
       /\ power[i + 1] = << >>
       /\ relay[i + 1] = POWER_OFF

\* The names of the five commands in op.
Commands == {"Set", "TimeBase", "FallbackValue", "StartWithFallback", "FallbackAfter"}

\* C21: no command, accepted or not, sends a power command or changes
\* is_open, seconds_running or open_seconds_active of any channel; an
\* accepted TimepropTimeBase, with 0 on an open channel too, also leaves
\* is_running and the incoming value of every channel as they were.
C21_OnlyTickDrives ==
  [][op'.name \in Commands =>
       /\ power' = NoPower
       /\ relay' = relay
       /\ \A i \in Chan :
            LET st == Timepropsstate[i]
                new == Timepropsstate'[i]
            IN /\ new.is_open = st.is_open
               /\ new.seconds_running = st.seconds_running
               /\ new.open_seconds_active = st.open_seconds_active
               /\ op'.name = "TimeBase" =>
                    /\ new.is_running = st.is_running
                    /\ new.incoming_percent_value = st.incoming_percent_value
    ]_vars

\* TimepropTimeBase 0 was accepted on an open channel in its second second:
\* it is still open, running, and its relay is on.
C21_Witness ==
  /\ Ended("TimeBase", "accepted")
  /\ \E i \in Chan :
       /\ OpenDisabled(Timepropsstate[i])
       /\ Timepropsstate[i].is_running
       /\ Timepropsstate[i].seconds_running = 2
       /\ Timepropsstate[i].incoming_percent_value > 0
       /\ relay[i + 1] = POWER_ON

\* C22: the Tick in which the fallback value takes over sets the incoming
\* value and last_received and, for the rest, does what a Tick does: the
\* open time is the one of the cycle in progress or, at the beginning of a
\* cycle, the one of the incoming value before the takeover, is_open and the
\* power commands follow from that open time, and seconds_running counts on;
\* the open time of the fallback value is taken at the next beginning of a
\* cycle.
C22_TakeoverKeepsCycle ==
  [][\A i \in Chan :
       LET st == Timepropsstate[i]
           new == Timepropsstate'[i]
           opens == st.seconds_running = 0 /\ new.open_seconds_active > 0
           closes == (st.is_open \/ opens) /\ st.seconds_running >= new.open_seconds_active
       IN /\ (op'.name = "Tick" /\ Driven(st)
                /\ fallback_after_seconds > 0
                /\ st.last_received + 1 >= fallback_after_seconds)
               => /\ new = [st EXCEPT !.incoming_percent_value = st.fallback_value,
                                      !.last_received = 0,
                                      !.open_seconds_active = new.open_seconds_active,
                                      !.is_open = new.is_open,
                                      !.seconds_running = new.seconds_running]
                  /\ new.open_seconds_active \in
                       IF st.seconds_running = 0
                         THEN OpenSecondsForPercentValue(st.timebase, st.incoming_percent_value)
                         ELSE {st.open_seconds_active}
                  /\ new.is_open = ((st.is_open \/ opens) /\ ~closes)
                  /\ power'[i + 1] = (IF opens THEN <<POWER_ON>> ELSE << >>) \o
                                     (IF closes THEN <<POWER_OFF>> ELSE << >>)
                  /\ new.seconds_running =
                       IF st.seconds_running + 1 >= st.timebase
                         THEN 0 ELSE st.seconds_running + 1
          /\ (op'.name = "Tick" /\ BeginsCycle(st))
               => new.open_seconds_active \in
                    OpenSecondsForPercentValue(st.timebase, st.incoming_percent_value)
    ]_vars

\* The fallback value 43 took over in the Tick that began a cycle: the open
\* time is the 18 seconds of the 30 that was the incoming value until then.
C22_Witness ==
  /\ op.name = "Tick"
  /\ fallback_after_seconds = 3600
  /\ \E i \in Chan :
       /\ Timepropsstate[i].last_received = 0
       /\ Timepropsstate[i].incoming_percent_value = 43
       /\ Timepropsstate[i].seconds_running = 1
       /\ Timepropsstate[i].open_seconds_active = 18
       /\ cycle[i].percent = 30
       /\ Timepropsstate[i].is_open

(***************************************************************************)
(* FairLong: SpecLong for the boots with a fallback time of one hour, in   *)
(* which last_received stays below LongMaxLast and the Tick is enabled     *)
(* for ever: FUNC_EVERY_SECOND keeps coming.                               *)
(***************************************************************************)
FairBootSettings == {S \in LongBootSettings : S.timeprop_cfg.fallback_time = 1}

InitFair == BootWith(FairBootSettings)

FairLong == InitFair /\ [][NextLong]_vars /\ WF_vars(Boot) /\ WF_vars(LongTick)

\* The cycle in progress of channel i began with its present incoming value
\* and timebase, and its open time is one of that value.
Latched(i) ==
  /\ cycle[i].percent = Timepropsstate[i].incoming_percent_value
  /\ cycle[i].timebase = Timepropsstate[i].timebase
  /\ Timepropsstate[i].open_seconds_active \in
       OpenSecondsForPercentValue(Timepropsstate[i].timebase,
                                  Timepropsstate[i].incoming_percent_value)

\* C23: with Ticks that keep coming, a driven channel whose incoming value
\* stays p comes to a beginning of a cycle that takes the open time of p; it
\* has done so once timebase Ticks have passed since the TimepropSet or the
\* takeover that gave it p; and seconds_running of a driven channel is 0
\* again and again.  (The liveness is stated for channel 0, the channel that
\* FairLong drives.)
C23_CycleStartComes ==
  /\ [](\A i \in Chan :
          (Driven(Timepropsstate[i])
             /\ Timepropsstate[i].last_received >= Timepropsstate[i].timebase)
            => Latched(i))
  /\ \A p \in {30, 43, 100} :
       (Driven(Timepropsstate[0]) /\ Timepropsstate[0].incoming_percent_value = p)
         ~> (Latched(0) \/ Timepropsstate[0].incoming_percent_value # p)
  /\ [](Driven(Timepropsstate[0]) => <>(Timepropsstate[0].seconds_running = 0))

\* A cycle has begun with the 100 of a TimepropSet that came in the cycle
\* before, which had begun with 30.
C23_Witness ==
  /\ op.name = "Tick"
  /\ \E i \in Chan :
       /\ Latched(i)
       /\ cycle[i].percent = 100
       /\ Timepropsstate[i].seconds_running = 1
       /\ Timepropsstate[i].last_received = 59
       /\ Timepropsstate[i].open_seconds_active = 60

\* C24: in every state after TimepropInit the runtime parameters are the
\* conversion of the persisted settings: per channel the timebase is 60 times
\* the minutes and the fallback value is round(level * 100 / 7), and
\* fallback_after_seconds is 3600 times the hours and start_with_fallback is
\* the flag.
C24_SettingsInSync ==
  pc = "run" =>
    /\ \A i \in Chan :
         /\ Timepropsstate[i].timebase = 60 * Settings.timeprop[i].timebase
         /\ 7 * (2 * Timepropsstate[i].fallback_value - 1)
              <= 200 * Settings.timeprop[i].fallback_value
         /\ 200 * Settings.timeprop[i].fallback_value
              < 7 * (2 * Timepropsstate[i].fallback_value + 1)
    /\ fallback_after_seconds = 3600 * Settings.timeprop_cfg.fallback_time
    /\ start_with_fallback <=> Settings.timeprop_cfg.start_with_fallback # 0

\* TimepropFallbackAfter 1 was accepted after a TimepropTimeBase 31.
C24_Witness ==
  /\ Ended("FallbackAfter", "accepted")
  /\ ncmd = 2
  /\ Settings.timeprop_cfg.fallback_time = 1
  /\ fallback_after_seconds = 3600
  /\ \E i \in Chan :
       /\ Settings.timeprop[i].timebase = 31
       /\ Timepropsstate[i].timebase = 1860

(***************************************************************************)
(* SpecDrive: channel 0 has a timebase of 1 minute and the fallback value  *)
(* 0, the fallback time is one hour.  Ticks for more than an hour;         *)
(* TimepropSet and TimepropTimeBase in the first seconds of a cycle, any   *)
(* number of times.                                                        *)
(***************************************************************************)
DriveBootSettings ==
  { [timeprop |-> [i \in Chan |-> IF i = 0 THEN [timebase |-> 1, fallback_value |-> 0]
                                           ELSE Bystanders(i)],
     timeprop_cfg |-> [fallback_time |-> 1, start_with_fallback |-> f]] : f \in {0, 1} }

DrivePercentInputs == {30, 101}

DriveMinuteInputs == {0, 1, 32}

InitDrive == BootWith(DriveBootSettings)

DriveTick == Staleness < LongMaxLast /\ TimepropEverySecond /\ Observe /\ UNCHANGED ncmd

DriveSet ==
  /\ Timepropsstate[0].seconds_running < SetWindow
  /\ \E index \in CycleIndexInputs, data \in Payloads(DrivePercentInputs) :
       CmndTimepropSet(index, data)
  /\ Observe
  /\ UNCHANGED ncmd

DriveTimeBase ==
  /\ Timepropsstate[0].seconds_running < SetWindow
  /\ \E index \in CycleIndexInputs, data \in Payloads(DriveMinuteInputs) :
       CmndTimepropTimeBase(index, data)
  /\ Observe
  /\ UNCHANGED ncmd

NextDrive == Boot \/ DriveTick \/ DriveSet \/ DriveTimeBase

SpecDrive == InitDrive /\ [][NextDrive]_vars

\* C25: no operation sets is_running of a channel back to false, neither a
\* Tick, with a takeover of the fallback value 0 too, nor a command, with
\* TimepropTimeBase 0 too.
C25_RunningStays ==
  [][\A i \in Chan : Timepropsstate[i].is_running => Timepropsstate'[i].is_running]_vars

\* The fallback value 0 has taken over in a cycle that began with 30: the
\* channel is still running.
C25_Witness ==
  /\ op.name = "Tick"
  /\ \E i \in Chan :
       /\ Timepropsstate[i].is_running
       /\ Timepropsstate[i].fallback_value = 0
       /\ Timepropsstate[i].incoming_percent_value = 0
       /\ Timepropsstate[i].last_received = 0
       /\ cycle[i].percent = 30
       /\ Timepropsstate[i].timebase = 60

\* TimepropTimeBase 0 on a running channel: it is still running.
C25_WitnessDisabled ==
  /\ Ended("TimeBase", "accepted")
  /\ \E i \in Chan :
       /\ Timepropsstate[i].is_running
       /\ Timepropsstate[i].timebase = 0
       /\ Timepropsstate[i].incoming_percent_value = 30

\* C26: a Tick sends every relay at most one power command, never ON and OFF
\* in the same second.
C26_OneCommandPerTick ==
  op.name = "Tick" =>
    \A d \in Device : Len(power[d]) <= 1 /\ Sent(power[d]) # {POWER_ON, POWER_OFF}

\* The Tick that began a cycle of 30 percent has sent ON and nothing else.
C26_Witness ==
  /\ op.name = "Tick"
  /\ \E i \in Chan :
       /\ power[i + 1] = <<POWER_ON>>
       /\ Timepropsstate[i].seconds_running = 1
       /\ Timepropsstate[i].open_seconds_active = 18
       /\ Timepropsstate[i].is_open

\* C27: after every operation is_open of a channel is true exactly if the
\* last power command sent to its relay was ON; and a Tick sends no OFF to a
\* relay whose last command was not ON.
C27_OpenMeansOn ==
  [][\A i \in Chan :
       /\ Timepropsstate'[i].is_open <=> relay'[i + 1] = POWER_ON
       /\ (op'.name = "Tick" /\ relay[i + 1] # POWER_ON)
            => POWER_OFF \notin Sent(power'[i + 1])
    ]_vars

\* The Tick after the 18 seconds of a cycle of 30 percent has sent OFF.
C27_Witness ==
  /\ op.name = "Tick"
  /\ \E i \in Chan :
       /\ power[i + 1] = <<POWER_OFF>>
       /\ relay[i + 1] = POWER_OFF
       /\ ~Timepropsstate[i].is_open
       /\ Timepropsstate[i].open_seconds_active = 18
       /\ Timepropsstate[i].seconds_running = 19

\* C28: after every Tick a driven channel has last_received below the
\* fallback time F when F > 0; a Tick raises last_received of a driven
\* channel by exactly one or, when the fallback value takes over, makes it
\* zero; and last_received falls only in an accepted TimepropSet for that
\* channel or in such a takeover.
C28_LastReceived ==
  [][\A i \in Chan :
       LET st == Timepropsstate[i]
           new == Timepropsstate'[i]
           takeover == /\ op'.name = "Tick"
                       /\ Driven(st)
                       /\ fallback_after_seconds > 0
                       /\ st.last_received + 1 >= fallback_after_seconds
       IN /\ (op'.name = "Tick" /\ Driven(new) /\ fallback_after_seconds' > 0)
               => new.last_received < fallback_after_seconds'
          /\ (op'.name = "Tick" /\ Driven(st))
               => new.last_received = (IF takeover THEN 0 ELSE st.last_received + 1)
          /\ (op'.name = "Tick" /\ ~Driven(st))
               => new.last_received = st.last_received
          /\ new.last_received < st.last_received
               => /\ new.last_received = 0
                  /\ \/ takeover
                     \/ /\ op' = [name |-> "Set", result |-> "accepted"]
                        /\ \E value \in 0..100 : new = Accept(st, value)
    ]_vars

\* The last Tick before the fallback value takes over: an hour less a second
\* has passed since the last TimepropSet.
C28_Witness ==
  /\ op.name = "Tick"
  /\ fallback_after_seconds = 3600
  /\ \E i \in Chan :
       /\ Driven(Timepropsstate[i])
       /\ Timepropsstate[i].last_received = 3599
       /\ Timepropsstate[i].incoming_percent_value = 30

\* The Tick in which the fallback value took over.
C28_WitnessTakeover ==
  /\ op.name = "Tick"
  /\ fallback_after_seconds = 3600
  /\ \E i \in Chan :
       /\ Driven(Timepropsstate[i])
       /\ Timepropsstate[i].last_received = 0
       /\ Timepropsstate[i].seconds_running = 0
       /\ cycle[i].percent = 30
       /\ Timepropsstate[i].incoming_percent_value = 43

\* The command leaves the state and the settings of every channel but the
\* one of this index as they are.
OthersUntouched(index) ==
  \A j \in Chan \ {index - 1} :
    /\ Timepropsstate'[j] = Timepropsstate[j]
    /\ Settings'.timeprop[j] = Settings.timeprop[j]

C30_IdleIsZero ==
  [][\A i \in Chan :
       LET st == Timepropsstate[i]
           new == Timepropsstate'[i]
       IN /\ ~new.is_running
               => /\ new.seconds_running = 0
                  /\ new.last_received = 0
                  /\ new.open_seconds_active = 0
                  /\ ~new.is_open
          /\ (op'.name = "Set" /\ ~st.is_running /\ new.is_running)
               => /\ op'.result = "accepted"
                  /\ response' = <<new.incoming_percent_value>>
                  /\ new = [st EXCEPT !.is_running = TRUE,
                                      !.incoming_percent_value = new.incoming_percent_value]
                  /\ st.timebase > 0 => BeginsCycle(new)
          /\ (op'.name = "Tick" /\ Driven(st) /\ cycle[i].timebase = 0)
               => /\ st.seconds_running = 0
                  /\ new.open_seconds_active \in
                       OpenSecondsForPercentValue(st.timebase, st.incoming_percent_value)
                  /\ power'[i + 1] =
                       (IF new.open_seconds_active > 0 THEN <<POWER_ON>> ELSE << >>)
                  /\ new.is_open = (new.open_seconds_active > 0)
    ]_vars

\* The Tick after TimepropSet 30 on a channel that did not start with the
\* fallback value: the cycle has begun with 18 seconds of ON, while another
\* enabled channel is still idle.
C30_Witness ==
  /\ op.name = "Tick"
  /\ ~start_with_fallback
  /\ \E i \in Chan :
       /\ Timepropsstate[i].seconds_running = 1
       /\ Timepropsstate[i].last_received = 1
       /\ cycle[i].percent = 30
       /\ Timepropsstate[i].open_seconds_active = 18
       /\ Timepropsstate[i].is_open
       /\ relay[i + 1] = POWER_ON
       /\ \E j \in Chan : ~Timepropsstate[j].is_running /\ Timepropsstate[j].timebase > 0

\* C31: TimepropFallbackValue<i> with the value the channel holds, which is
\* the value the command before acknowledged, stores the level that is
\* stored already, answers that same value and leaves the channel as it is;
\* every accepted TimepropFallbackValue answers a value that is such a fixed
\* point; and the stored level of every channel stays within 0..7.
C31_QuantizeIdempotent ==
  [][/\ \A i \in Chan : Settings'.timeprop[i].fallback_value \in 0 .. 7
     /\ op'.name = "FallbackValue" =>
          \A index \in Device :
            LET held == Timepropsstate[index - 1].fallback_value
            IN CmndTimepropFallbackvalue(index, <<held>>) =>
                 /\ op'.result = "accepted"
                 /\ Settings' = Settings
                 /\ Timepropsstate' = Timepropsstate
                 /\ response' = <<held>>
     /\ op' = [name |-> "FallbackValue", result |-> "accepted"] =>
          /\ response'[1] \in FallbackLevels
          /\ \E i \in Chan :
               /\ Timepropsstate'[i].fallback_value = response'[1]
               /\ StoreValue(response'[1]) = Settings'.timeprop[i].fallback_value
               /\ FallbackValueSettingCalculated(Settings', i) = response'[1]
    ]_vars

\* TimepropFallbackValue has answered 86 on a channel with level 6: the state
\* in which 86 is fed back, and the state after that.
C31_Witness ==
  /\ Ended("FallbackValue", "accepted")
  /\ response = <<86>>
  /\ \E i \in Chan :
       /\ Settings.timeprop[i].fallback_value = 6
       /\ Timepropsstate[i].fallback_value = 86
       /\ ENABLED CmndTimepropFallbackvalue(i + 1, <<86>>)

====
